---- MODULE Spec2Model ----
(***************************************************************************)
(* A model of the lane-level A* planner of a3_astar/scripts/astarv5_utm.py *)
(*                                                                         *)
(* A geographic point is a pair <<lon, lat>> of small integers.  Distances *)
(* are integers: geodesic stands for geopy's geodesic(..).meters and keeps *)
(* the one property of it the code depends on besides being a metric: its  *)
(* first argument component is the latitude, and a degree of latitude is   *)
(* not as long as a degree of longitude.                                   *)
(*                                                                         *)
(* rospy delivers the messages of each subscribed topic on a thread of its *)
(* own, so the two callbacks of the node are two processes over the shared *)
(* node and lane objects; each has a program counter and its own locals.   *)
(***************************************************************************)
EXTENDS Integers, Sequences, FiniteSets, TLC

VARIABLES
    lanes,          \* self.lanes: path_id -> [path_id, start, end, center]
    lane_order,     \* iteration order of the self.lanes dict (insertion order)
    graph,          \* self.graph: path_id -> list of successor ids
    start_gps,      \* self.start_gps
    goal_gps,       \* self.goal_gps
    g, h, f, parent,\* the per-search fields of the LaneNode objects
    pc,             \* position of each callback thread
    start_lane,     \* locals of try_compute_path / a_star_lane_level, per thread
    goal_lane,
    open_list,
    closed_set,
    current,
    nbr_i,
    path,
    lane_path,
    fix,            \* the (start, goal) points a thread's computation looked up
    computed_path,  \* messages published on /computed_path
    path_utm,       \* messages published on /path_utm
    received,       \* history: messages delivered so far, per topic
    history,        \* history: the computations that reached their end
    call            \* a call of one of the pure functions, outside the node

world  == <<lanes, lane_order, graph>>
node   == <<start_gps, goal_gps>>
fields == <<g, h, f, parent>>
locals == <<start_lane, goal_lane, open_list, closed_set, current, nbr_i, path, lane_path>>
outs   == <<fix, computed_path, path_utm, received, history, call>>
vars   == <<world, node, fields, pc, locals, outs>>

(***************************************************************************)
(* Bounds of the model.                                                    *)
(***************************************************************************)
MaxLanes == 3       \* lanes of an enumerated lane document
MaxEdges == 2       \* connected_to entries of an enumerated lane document
MaxLen   == 1       \* longest centerline (in segments) of an enumerated lane
MaxUpdates == 3     \* position messages delivered to the node
MaxPath  == 5       \* points of a path given to remove_cycles_from_path
MaxCenter == 3      \* points of a centerline given to truncate_goal_lane
MaxCoord == 4       \* easternmost longitude of those centerlines
MaxNear  == 2       \* points of a centerline given to find_closest_lane_node

(***************************************************************************)
(* Values of the program.                                                  *)
(***************************************************************************)
None         == 0          \* Python None; path ids are positive
Inf          == 1000000    \* float('inf')
NoConnection == -1         \* the "no connection" sentinel of connected_to
Dangling     == MaxLanes + 1   \* an id no lane of an enumerated document has

NoFix        == <<>>       \* None in a field that otherwise holds a (lon, lat) tuple

\* what a_star_lane_level returns: None, or a list of lanes
NoPath       == [found |-> FALSE, lanes |-> <<>>]
Found(seq)   == [found |-> TRUE, lanes |-> seq]

MinFraction  == <<1, 10>>  \* min_fraction=0.1
Threshold    == 5          \* threshold=5.0

NoCall == [fn |-> "none"]

Threads == {"gps_fix", "gps_coordinates"}

Abs(x) == IF x < 0 THEN -x ELSE x

\* geodesic(a, b).meters; a and b are read as (lat, lon)
geodesic(a, b) == 2 * Abs(a[1] - b[1]) + Abs(a[2] - b[2])

\* inf + x = inf
Plus(a, b) == IF a = Inf THEN Inf ELSE a + b

\* heuristic(a, b): the (lon, lat) tuples are handed to geodesic as they are
heuristic(a, b) == geodesic(a.end, b.start)

RECURSIVE CenterLength(_, _)
CenterLength(pts, i) ==
    IF i > Len(pts) THEN 0
    ELSE geodesic(<<pts[i-1][2], pts[i-1][1]>>, <<pts[i][2], pts[i][1]>>)
         + CenterLength(pts, i + 1)

lane_length(lane) ==
    IF Len(lane.center) < 2
    THEN geodesic(<<lane.start[2], lane.start[1]>>, <<lane.end[2], lane.end[1]>>)
    ELSE CenterLength(lane.center, 2)

(***************************************************************************)
(* load_lane_graph: a lane document is a sequence of records               *)
(* [path_id, start, end, center, connected_to].                            *)
(***************************************************************************)
RECURSIVE SelectValid(_)
SelectValid(conns) ==
    IF conns = <<>> THEN <<>>
    ELSE IF Head(conns) # NoConnection
         THEN <<Head(conns)>> \o SelectValid(Tail(conns))
         ELSE SelectValid(Tail(conns))

RECURSIVE LoadFrom(_, _, _, _, _)
LoadFrom(doc, i, ln, ord, gr) ==
    IF i > Len(doc) THEN [lanes |-> ln, order |-> ord, graph |-> gr]
    ELSE LET rec   == doc[i]
             id    == rec.path_id
             nd    == [path_id |-> id, start |-> rec.start, end |-> rec.end,
                       center |-> rec.center]
             valid == SelectValid(rec.connected_to)
             ln2   == [k \in DOMAIN ln \cup {id} |-> IF k = id THEN nd ELSE ln[k]]
             ord2  == IF id \in DOMAIN ln THEN ord ELSE Append(ord, id)
             gr2   == IF valid = <<>> THEN gr
                      ELSE [k \in DOMAIN gr \cup {id} |->
                              IF k = id
                              THEN (IF id \in DOMAIN gr THEN gr[id] ELSE <<>>) \o valid
                              ELSE gr[k]]
         IN LoadFrom(doc, i + 1, ln2, ord2, gr2)

load_lane_graph(doc) == LoadFrom(doc, 1, <<>>, <<>>, <<>>)

\* LaneNode.__init__, and reset_lane_states: the per-search fields of every lane
FreshG(ln)      == [k \in DOMAIN ln |-> Inf]
FreshH(ln)      == [k \in DOMAIN ln |-> 0]
FreshF(ln)      == [k \in DOMAIN ln |-> 0]
FreshParent(ln) == [k \in DOMAIN ln |-> None]

(***************************************************************************)
(* heapq over LaneNode objects.  The heap holds references: an entry is a  *)
(* path id and every comparison reads the lane's f as it is now            *)
(* (LaneNode.__lt__).  Positions are 1-based.                              *)
(***************************************************************************)
lt(ff, a, b) == ff[a] < ff[b]

RECURSIVE siftdown(_, _, _, _)
siftdown(heap, ff, pos, newitem) ==
    IF pos > 1 /\ lt(ff, newitem, heap[pos \div 2])
    THEN siftdown([heap EXCEPT ![pos] = heap[pos \div 2]], ff, pos \div 2, newitem)
    ELSE [heap EXCEPT ![pos] = newitem]

RECURSIVE siftup(_, _, _, _)
siftup(heap, ff, pos, newitem) ==
    LET endpos   == Len(heap)
        childpos == 2 * pos
        rightpos == childpos + 1
        c        == IF rightpos <= endpos /\ ~lt(ff, heap[childpos], heap[rightpos])
                    THEN rightpos ELSE childpos
    IN IF childpos <= endpos
       THEN siftup([heap EXCEPT ![pos] = heap[c]], ff, c, newitem)
       ELSE siftdown(heap, ff, pos, newitem)

heappush(heap, ff, item) == siftdown(Append(heap, item), ff, Len(heap) + 1, item)

heappop(heap, ff) ==
    LET lastelt == heap[Len(heap)]
        rest    == SubSeq(heap, 1, Len(heap) - 1)
    IN IF rest # <<>>
       THEN [item |-> rest[1], heap |-> siftup(rest, ff, 1, lastelt)]
       ELSE [item |-> lastelt, heap |-> <<>>]

get(gr, id) == IF id \in DOMAIN gr THEN gr[id] ELSE <<>>

\* Reverse without the reversal: the list as the loop of lines 96-98 built it
AsBuilt(s) == s

RECURSIVE Reverse(_)
Reverse(s) == IF s = <<>> THEN <<>> ELSE Append(Reverse(Tail(s)), Head(s))

(***************************************************************************)
(* a_star_lane_level.  A search state is the record of what the function  *)
(* reads and writes: the lane fields and its own open_list and closed_set. *)
(***************************************************************************)
SearchState(gg, hh, ff, pp, ol, cs) ==
    [g |-> gg, h |-> hh, f |-> ff, parent |-> pp, open_list |-> ol, closed_set |-> cs]

\* lines 83-87
SearchBegin(ln, st, s, gl) ==
    LET ff == [st.f EXCEPT ![s] = heuristic(ln[s], ln[gl])]
    IN [st EXCEPT !.g = [st.g EXCEPT ![s] = 0],
                  !.f = ff,
                  !.open_list = heappush(<<>>, ff, s),
                  !.closed_set = {}]

\* SearchPop with "current = open_list[0]" for the heappop of line 90
SearchPeek(st) ==
    [item |-> st.open_list[1],
     st   |-> [st EXCEPT !.closed_set = st.closed_set \cup {st.open_list[1]}]]

\* lines 90-91
SearchPop(st) ==
    LET p == heappop(st.open_list, st.f)
    IN [item |-> p.item,
        st   |-> [st EXCEPT !.open_list = p.heap,
                            !.closed_set = st.closed_set \cup {p.item}]]

\* SearchNeighbor with a lookup that falls back to the goal lane for an id
\* that no lane has, in place of the test of lines 104-106
SearchNeighborFallback(ln, st, cur, gl, neighbor_id) ==
    IF neighbor_id \in st.closed_set THEN st
    ELSE LET nb          == IF neighbor_id \in DOMAIN ln THEN neighbor_id ELSE gl
             tentative_g == Plus(st.g[cur], lane_length(ln[nb]))
         IN IF tentative_g < st.g[nb]
            THEN LET hv == heuristic(ln[nb], ln[gl])
                     ff == [st.f EXCEPT ![nb] = tentative_g + hv]
                 IN [st EXCEPT !.g = [st.g EXCEPT ![nb] = tentative_g],
                               !.h = [st.h EXCEPT ![nb] = hv],
                               !.f = ff,
                               !.parent = [st.parent EXCEPT ![nb] = cur],
                               !.open_list = heappush(st.open_list, ff, nb)]
            ELSE st

\* SearchNeighbor without the test of lines 102-103
SearchNeighborReopen(ln, st, cur, gl, neighbor_id) ==
    IF neighbor_id \notin DOMAIN ln THEN st
    ELSE LET tentative_g == Plus(st.g[cur], lane_length(ln[neighbor_id]))
         IN IF tentative_g < st.g[neighbor_id]
            THEN LET hv == heuristic(ln[neighbor_id], ln[gl])
                     ff == [st.f EXCEPT ![neighbor_id] = tentative_g + hv]
                 IN [st EXCEPT !.g = [st.g EXCEPT ![neighbor_id] = tentative_g],
                               !.h = [st.h EXCEPT ![neighbor_id] = hv],
                               !.f = ff,
                               !.parent = [st.parent EXCEPT ![neighbor_id] = cur],
                               !.open_list = heappush(st.open_list, ff, neighbor_id)]
            ELSE st

\* lines 102-115, for one neighbor_id of current
SearchNeighbor(ln, st, cur, gl, neighbor_id) ==
    IF neighbor_id \in st.closed_set THEN st
    ELSE IF neighbor_id \notin DOMAIN ln THEN st
    ELSE LET tentative_g == Plus(st.g[cur], lane_length(ln[neighbor_id]))
         IN IF tentative_g < st.g[neighbor_id]
            THEN LET hv == heuristic(ln[neighbor_id], ln[gl])
                     ff == [st.f EXCEPT ![neighbor_id] = tentative_g + hv]
                 IN [st EXCEPT !.g = [st.g EXCEPT ![neighbor_id] = tentative_g],
                               !.h = [st.h EXCEPT ![neighbor_id] = hv],
                               !.f = ff,
                               !.parent = [st.parent EXCEPT ![neighbor_id] = cur],
                               !.open_list = heappush(st.open_list, ff, neighbor_id)]
            ELSE st

\* the for loop of lines 101-115 from position i on
RECURSIVE SearchExpand(_, _, _, _, _, _)
SearchExpand(ln, gr, st, cur, gl, i) ==
    IF i > Len(get(gr, cur)) THEN st
    ELSE SearchExpand(ln, gr, SearchNeighbor(ln, st, cur, gl, get(gr, cur)[i]),
                      cur, gl, i + 1)

\* lines 95-98: the lanes from cur back along the parent references
RECURSIVE ParentChain(_, _)
ParentChain(pp, cur) ==
    IF cur = None THEN <<>> ELSE <<cur>> \o ParentChain(pp, pp[cur])

\* the while loop of lines 89-116
RECURSIVE SearchLoop(_, _, _, _)
SearchLoop(ln, gr, st, gl) ==
    IF st.open_list = <<>> THEN NoPath
    ELSE LET p == SearchPop(st)
         IN IF p.item = gl
            THEN Found(Reverse(ParentChain(p.st.parent, p.item)))
            ELSE SearchLoop(ln, gr, SearchExpand(ln, gr, p.st, p.item, gl, 1), gl)

\* the value a_star_lane_level returns when nothing else touches the lanes
a_star_lane_level(gr, ln, st, s, gl) == SearchLoop(ln, gr, SearchBegin(ln, st, s, gl), gl)

FreshState(ln) ==
    SearchState(FreshG(ln), FreshH(ln), FreshF(ln), FreshParent(ln), <<>>, {})

(***************************************************************************)
(* The steps of a_star_lane_level as run by thread t.                      *)
(***************************************************************************)
StateOf(t) == SearchState(g, h, f, parent, open_list[t], closed_set[t])

Store(t, st) ==
    /\ g' = st.g
    /\ h' = st.h
    /\ f' = st.f
    /\ parent' = st.parent
    /\ open_list' = [open_list EXCEPT ![t] = st.open_list]
    /\ closed_set' = [closed_set EXCEPT ![t] = st.closed_set]

AStarBegin(t) ==
    /\ pc[t] = "search"
    /\ Store(t, SearchBegin(lanes, StateOf(t), start_lane[t], goal_lane[t]))
    /\ pc' = [pc EXCEPT ![t] = "loop"]
    /\ UNCHANGED <<world, node, start_lane, goal_lane, current, nbr_i, path, lane_path, outs>>

AStarPop(t) ==
    /\ pc[t] = "loop"
    /\ open_list[t] # <<>>
    /\ LET p == SearchPop(StateOf(t))
       IN /\ Store(t, p.st)
          /\ current' = [current EXCEPT ![t] = p.item]
          /\ nbr_i' = [nbr_i EXCEPT ![t] = 1]
          /\ path' = [path EXCEPT ![t] = <<>>]
          /\ pc' = [pc EXCEPT ![t] =
                      IF p.item = goal_lane[t] THEN "build"
                      ELSE IF get(graph, p.item) = <<>> THEN "loop"
                      ELSE "neighbors"]
    /\ UNCHANGED <<world, node, start_lane, goal_lane, lane_path, outs>>

AStarNeighbor(t) ==
    /\ pc[t] = "neighbors"
    /\ LET nbrs == get(graph, current[t])
       IN /\ Store(t, SearchNeighbor(lanes, StateOf(t), current[t], goal_lane[t],
                                     nbrs[nbr_i[t]]))
          /\ nbr_i' = [nbr_i EXCEPT ![t] = nbr_i[t] + 1]
          /\ pc' = [pc EXCEPT ![t] = IF nbr_i[t] = Len(nbrs) THEN "loop" ELSE "neighbors"]
    /\ UNCHANGED <<world, node, start_lane, goal_lane, current, path, lane_path, outs>>

\* one turn of "while current:"; a chain longer than the lane count has a cycle
\* in it and the loop never ends
AStarBuild(t) ==
    /\ pc[t] = "build"
    /\ LET path2 == Append(path[t], current[t])
           next  == parent[current[t]]
       IN /\ path' = [path EXCEPT ![t] = path2]
          /\ current' = [current EXCEPT ![t] = next]
          /\ IF next = None
             THEN /\ lane_path' = [lane_path EXCEPT ![t] = Found(Reverse(path2))]
                  /\ pc' = [pc EXCEPT ![t] = "returned"]
             ELSE /\ lane_path' = lane_path
                  /\ pc' = [pc EXCEPT ![t] =
                              IF Len(path2) > Cardinality(DOMAIN lanes)
                              THEN "diverged" ELSE "build"]
    /\ UNCHANGED <<world, node, fields, start_lane, goal_lane, open_list, closed_set,
                   nbr_i, outs>>

\* line 116
AStarFail(t) ==
    /\ pc[t] = "loop"
    /\ open_list[t] = <<>>
    /\ lane_path' = [lane_path EXCEPT ![t] = NoPath]
    /\ pc' = [pc EXCEPT ![t] = "returned"]
    /\ UNCHANGED <<world, node, fields, start_lane, goal_lane, open_list, closed_set,
                   current, nbr_i, path, outs>>

(***************************************************************************)
(* Lane documents the searches are run on.                                 *)
(***************************************************************************)
Origin == <<0, 0>>

\* a lane that leaves the origin eastwards, k segments long
StraightCenter(k) == IF k = 0 THEN <<>> ELSE [i \in 1..(k + 1) |-> <<i - 1, 0>>]

LaneRecord(id, st, en, ctr, conns) ==
    [path_id |-> id, start |-> st, end |-> en, center |-> ctr, connected_to |-> conns]

\* the ids of S, ascending if up and descending if not
RECURSIVE SortedSeq(_, _)
SortedSeq(S, up) ==
    IF S = {} THEN <<>>
    ELSE LET m == CHOOSE x \in S : \A y \in S : IF up THEN x <= y ELSE x >= y
         IN <<m>> \o SortedSeq(S \ {m}, up)

\* every lane of these documents has the sentinel after its successors; listed
\* descending, an id that no lane has comes before the other successors
SmallDoc(n, len, E, up) ==
    [i \in 1..n |->
        LaneRecord(i, Origin, <<len[i], 0>>, StraightCenter(len[i]),
                   SortedSeq({e[2] : e \in {x \in E : x[1] = i}}, up) \o <<NoConnection>>)]

\* the sets of at most k edges between the lanes, or from a lane to Dangling
RECURSIVE EdgeSets(_)
EdgeSets(k) ==
    IF k = 0 THEN {{}}
    ELSE LET fewer == EdgeSets(k - 1)
         IN fewer \cup {X \cup {e} : X \in fewer,
                                     e \in (1..MaxLanes) \X ((1..MaxLanes) \cup {Dangling})}

\* the sets of at most k edges between the lanes
RECURSIVE LaneEdgeSets(_)
LaneEdgeSets(k) ==
    IF k = 0 THEN {{}}
    ELSE LET fewer == LaneEdgeSets(k - 1)
         IN fewer \cup {X \cup {e} : X \in fewer, e \in (1..MaxLanes) \X (1..MaxLanes)}

\* Six lanes on which a lane waiting in the open list is reached a second
\* time, by a cheaper predecessor that was expanded later.
RepushDoc ==
    << LaneRecord(1, Origin, <<0, 0>>, <<>>,                 <<2, 4>>),
       LaneRecord(2, Origin, <<0, 0>>, <<<<0, 0>>, <<2, 0>>>>, <<6, 3>>),
       LaneRecord(3, Origin, <<0, 1>>, <<<<0, 0>>, <<0, 0>>>>, <<6, NoConnection>>),
       LaneRecord(4, Origin, <<0, 1>>, <<<<0, 0>>, <<1, 0>>>>, <<5, 3>>),
       LaneRecord(5, Origin, <<0, 3>>, <<<<0, 0>>, <<1, 0>>>>, <<NoConnection>>),
       LaneRecord(6, Origin, <<0, 0>>, <<<<0, 0>>, <<1, 0>>>>, <<NoConnection>>) >>

\* RepushDoc with successors that no lane has, before, between and after the
\* successors that exist
DanglingDoc ==
    << LaneRecord(1, Origin, <<0, 0>>, <<>>,                 <<7, 2, 4>>),
       LaneRecord(2, Origin, <<0, 0>>, <<<<0, 0>>, <<2, 0>>>>, <<6, 7, 3>>),
       LaneRecord(3, Origin, <<0, 1>>, <<<<0, 0>>, <<0, 0>>>>, <<6, NoConnection>>),
       LaneRecord(4, Origin, <<0, 1>>, <<<<0, 0>>, <<1, 0>>>>, <<5, 3, 7>>),
       LaneRecord(5, Origin, <<0, 3>>, <<<<0, 0>>, <<1, 0>>>>, <<8, NoConnection>>),
       LaneRecord(6, Origin, <<0, 0>>, <<<<0, 0>>, <<1, 0>>>>, <<NoConnection>>) >>

\* RepushDoc with lane 5 as a second successor of lane 3: when the second
\* entry of lane 3 is popped, lane 5 is still in the open list
StaleDoc ==
    << LaneRecord(1, Origin, <<0, 0>>, <<>>,                 <<2, 4>>),
       LaneRecord(2, Origin, <<0, 0>>, <<<<0, 0>>, <<2, 0>>>>, <<6, 3>>),
       LaneRecord(3, Origin, <<0, 1>>, <<<<0, 0>>, <<0, 0>>>>, <<6, 5, NoConnection>>),
       LaneRecord(4, Origin, <<0, 1>>, <<<<0, 0>>, <<1, 0>>>>, <<5, 3>>),
       LaneRecord(5, Origin, <<0, 3>>, <<<<0, 0>>, <<1, 0>>>>, <<NoConnection>>),
       LaneRecord(6, Origin, <<0, 0>>, <<<<0, 0>>, <<1, 0>>>>, <<NoConnection>>) >>

LoadedInto(doc) ==
    LET w == load_lane_graph(doc)
    IN /\ lanes = w.lanes
       /\ lane_order = w.order
       /\ graph = w.graph

(***************************************************************************)
(* SpecSearch: one call of a_star_lane_level on freshly built lanes, made  *)
(* by one thread.  The small documents hold every graph of at most         *)
(* MaxEdges edges, their lanes numbered from the start lane on; the        *)
(* six-lane documents are searched between any pair of their lanes.        *)
(***************************************************************************)
Caller == "gps_fix"

SearchFor(s, gl) ==
    /\ start_lane = [t \in Threads |-> IF t = Caller THEN s ELSE None]
    /\ goal_lane = [t \in Threads |-> IF t = Caller THEN gl ELSE None]

\* a_star_lane_level has been called and has not run a line yet
SearchNotBegun ==
    /\ start_gps = NoFix
    /\ goal_gps = NoFix
    /\ g = FreshG(lanes)
    /\ h = FreshH(lanes)
    /\ f = FreshF(lanes)
    /\ parent = FreshParent(lanes)
    /\ pc = [t \in Threads |-> IF t = Caller THEN "search" ELSE "idle"]
    /\ open_list = [t \in Threads |-> <<>>]
    /\ closed_set = [t \in Threads |-> {}]
    /\ current = [t \in Threads |-> None]
    /\ nbr_i = [t \in Threads |-> 1]
    /\ path = [t \in Threads |-> <<>>]
    /\ lane_path = [t \in Threads |-> NoPath]
    /\ fix = [t \in Threads |-> <<NoFix, NoFix>>]
    /\ computed_path = <<>>
    /\ path_utm = <<>>
    /\ received = [t \in Threads |-> 0]
    /\ history = {}
    /\ call = NoCall

InitSearch ==
    /\ \/ /\ \E len \in [1..MaxLanes -> {0, MaxLen}], E \in EdgeSets(MaxEdges),
                up \in BOOLEAN :
                LoadedInto(SmallDoc(MaxLanes, len, E, up))
          /\ \E gl \in DOMAIN lanes : SearchFor(1, gl)
       \/ /\ (LoadedInto(RepushDoc) \/ LoadedInto(DanglingDoc) \/ LoadedInto(StaleDoc))
          /\ \E s \in DOMAIN lanes, gl \in DOMAIN lanes : SearchFor(s, gl)
    /\ SearchNotBegun

\* InitSearch on the small documents whose successors all exist, listed
\* ascending: every graph of at most MaxEdges edges, self-loops and cycles
\* among them, over lanes of length 0 or MaxLen, searched from the first lane
\* to itself or to the last lane
InitSearchLive ==
    /\ \/ /\ \E len \in [1..MaxLanes -> {0, MaxLen}], E \in LaneEdgeSets(MaxEdges) :
                LoadedInto(SmallDoc(MaxLanes, len, E, TRUE))
          /\ \E gl \in {1, MaxLanes} : SearchFor(1, gl)
       \/ /\ (LoadedInto(RepushDoc) \/ LoadedInto(DanglingDoc) \/ LoadedInto(StaleDoc))
          /\ \E s \in DOMAIN lanes, gl \in DOMAIN lanes : SearchFor(s, gl)
    /\ SearchNotBegun

NextSearch ==
    \/ AStarBegin(Caller)
    \/ AStarPop(Caller)
    \/ AStarNeighbor(Caller)
    \/ AStarBuild(Caller)
    \/ AStarFail(Caller)

SpecSearch == InitSearch /\ [][NextSearch]_vars

\* the thread that called a_star_lane_level keeps running it
SpecSearchLive == InitSearchLive /\ [][NextSearch]_vars /\ WF_vars(NextSearch)

(***************************************************************************)
(* find_closest_lane_node: the lanes in dict order, the points of each in  *)
(* list order, a strictly smaller distance replaces the best so far.       *)
(***************************************************************************)
\* ClosestFrom with "<=" for "<" in the test of line 77
RECURSIVE ClosestFromLast(_, _, _, _, _, _)
ClosestFromLast(ln, ord, gps_point, i, j, best) ==
    IF i > Len(ord) THEN best.closest_lane
    ELSE IF j > Len(ln[ord[i]].center)
         THEN ClosestFromLast(ln, ord, gps_point, i + 1, 1, best)
    ELSE LET pt == ln[ord[i]].center[j]
             d  == geodesic(<<gps_point[2], gps_point[1]>>, <<pt[2], pt[1]>>)
         IN ClosestFromLast(ln, ord, gps_point, i, j + 1,
                            IF d <= best.min_distance
                            THEN [closest_lane |-> ord[i], min_distance |-> d]
                            ELSE best)

RECURSIVE ClosestFrom(_, _, _, _, _, _)
ClosestFrom(ln, ord, gps_point, i, j, best) ==
    IF i > Len(ord) THEN best.closest_lane
    ELSE IF j > Len(ln[ord[i]].center) THEN ClosestFrom(ln, ord, gps_point, i + 1, 1, best)
    ELSE LET pt == ln[ord[i]].center[j]
             d  == geodesic(<<gps_point[2], gps_point[1]>>, <<pt[2], pt[1]>>)
         IN ClosestFrom(ln, ord, gps_point, i, j + 1,
                        IF d < best.min_distance
                        THEN [closest_lane |-> ord[i], min_distance |-> d]
                        ELSE best)

\* find_closest_lane_node that takes the start point of a lane for its
\* centerline when the centerline is empty, as lane_length does
find_closest_by_start(ln, ord, gps_point) ==
    ClosestFrom([id \in DOMAIN ln |->
                    IF ln[id].center = <<>>
                    THEN [ln[id] EXCEPT !.center = <<ln[id].start>>]
                    ELSE ln[id]],
                ord, gps_point, 1, 1, [closest_lane |-> None, min_distance |-> Inf])

find_closest_lane_node(ln, ord, gps_point) ==
    ClosestFrom(ln, ord, gps_point, 1, 1, [closest_lane |-> None, min_distance |-> Inf])

(***************************************************************************)
(* truncate_goal_lane.  min_fraction is a ratio <<num, den>>, den > 0.     *)
(***************************************************************************)
\* cumulative[i] of lines 131-137, for the 1-based position i
RECURSIVE Cumulative(_, _)
Cumulative(center, i) ==
    IF i <= 1 THEN 0
    ELSE Cumulative(center, i - 1)
         + geodesic(<<center[i-1][2], center[i-1][1]>>, <<center[i][2], center[i][1]>>)

\* CandidateFrom with "or" for "and" in the test of line 150
RECURSIVE CandidateFromOr(_, _, _, _, _, _)
CandidateFromOr(center, goal, min_fraction, threshold, total_length, i) ==
    IF i > Len(center) THEN None
    ELSE LET pt           == center[i]
             dist_to_goal == geodesic(<<goal[2], goal[1]>>, <<pt[2], pt[1]>>)
         IN IF \/ Cumulative(center, i) * min_fraction[2] >= min_fraction[1] * total_length
               \/ dist_to_goal < threshold
            THEN i
            ELSE CandidateFromOr(center, goal, min_fraction, threshold, total_length, i + 1)

\* CandidateFrom with ">" for ">=" in the test of line 150
RECURSIVE CandidateFromStrict(_, _, _, _, _, _)
CandidateFromStrict(center, goal, min_fraction, threshold, total_length, i) ==
    IF i > Len(center) THEN None
    ELSE LET pt           == center[i]
             dist_to_goal == geodesic(<<goal[2], goal[1]>>, <<pt[2], pt[1]>>)
         IN IF /\ Cumulative(center, i) * min_fraction[2] > min_fraction[1] * total_length
               /\ dist_to_goal < threshold
            THEN i
            ELSE CandidateFromStrict(center, goal, min_fraction, threshold, total_length,
                                     i + 1)

\* lines 146-153: the first position from i on that meets both conditions, or None
RECURSIVE CandidateFrom(_, _, _, _, _, _)
CandidateFrom(center, goal, min_fraction, threshold, total_length, i) ==
    IF i > Len(center) THEN None
    ELSE LET pt           == center[i]
             dist_to_goal == geodesic(<<goal[2], goal[1]>>, <<pt[2], pt[1]>>)
         IN IF /\ Cumulative(center, i) * min_fraction[2] >= min_fraction[1] * total_length
               /\ dist_to_goal < threshold
            THEN i
            ELSE CandidateFrom(center, goal, min_fraction, threshold, total_length, i + 1)

\* truncate_goal_lane without the test of lines 140-142
truncate_without_zero_test(goal_lane_center, goal, min_fraction, threshold) ==
    LET n            == Len(goal_lane_center)
        total_length == Cumulative(goal_lane_center, n)
        found        == CandidateFrom(goal_lane_center, goal, min_fraction, threshold,
                                      total_length, 1)
        candidate    == IF found = None THEN n ELSE found
    IN IF n = 0 THEN <<goal>>
       ELSE [SubSeq(goal_lane_center, 1, candidate) EXCEPT ![candidate] = goal]

truncate_goal_lane(goal_lane_center, goal, min_fraction, threshold) ==
    LET n            == Len(goal_lane_center)
        total_length == Cumulative(goal_lane_center, n)
        found        == CandidateFrom(goal_lane_center, goal, min_fraction, threshold,
                                      total_length, 1)
        candidate    == IF found = None THEN n ELSE found
    IN IF n = 0 THEN <<goal>>
       ELSE IF total_length = 0 THEN <<goal>>
       ELSE [SubSeq(goal_lane_center, 1, candidate) EXCEPT ![candidate] = goal]

\* CenterAfterTruncate with "truncated = goal_lane_center" for the slice of
\* line 160 when the last position is selected: the write of line 161 lands
\* in the list the lane holds
CenterAfterTruncateShared(goal_lane_center, goal, min_fraction, threshold) ==
    LET n            == Len(goal_lane_center)
        total_length == Cumulative(goal_lane_center, n)
        found        == CandidateFrom(goal_lane_center, goal, min_fraction, threshold,
                                      total_length, 1)
    IN IF n = 0 \/ total_length = 0 THEN goal_lane_center
       ELSE IF found = None \/ found = n
            THEN [goal_lane_center EXCEPT ![n] = goal]
            ELSE goal_lane_center

\* lines 160-161: the list the caller passed, after the call.  The slice is a
\* new list, the write of line 161 goes to the new list.
CenterAfterTruncate(goal_lane_center, goal, min_fraction, threshold) ==
    goal_lane_center

(***************************************************************************)
(* remove_cycles_from_path.  seen maps a coordinate to the 0-based index   *)
(* new_path had room for when the coordinate was first met.                *)
(***************************************************************************)
CycleStart == [seen |-> <<>>, new_path |-> <<>>]

\* CycleStep without the else: the point met again is appended after the cut
CycleStepNoElse(st, pt) ==
    LET cut == IF pt \in DOMAIN st.seen
               THEN SubSeq(st.new_path, 1,
                           IF st.seen[pt] + 1 < Len(st.new_path)
                           THEN st.seen[pt] + 1 ELSE Len(st.new_path))
               ELSE st.new_path
    IN [seen     |-> [q \in DOMAIN st.seen \cup {pt} |->
                        IF q = pt THEN Len(cut) ELSE st.seen[q]],
        new_path |-> Append(cut, pt)]

\* lines 173-179 for one point
CycleStep(st, pt) ==
    IF pt \in DOMAIN st.seen
    THEN LET idx == st.seen[pt]
         IN [st EXCEPT !.new_path =
                SubSeq(st.new_path, 1,
                       IF idx + 1 < Len(st.new_path) THEN idx + 1 ELSE Len(st.new_path))]
    ELSE [seen     |-> [q \in DOMAIN st.seen \cup {pt} |->
                          IF q = pt THEN Len(st.new_path) ELSE st.seen[q]],
          new_path |-> Append(st.new_path, pt)]

RECURSIVE CycleWalk(_, _, _)
CycleWalk(pts, i, st) ==
    IF i > Len(pts) THEN st ELSE CycleWalk(pts, i + 1, CycleStep(st, pts[i]))

remove_cycles_from_path(pts) == CycleWalk(pts, 1, CycleStart).new_path

(***************************************************************************)
(* convert_to_utm: utm.from_latlon(lat, lon) gives easting, northing, zone *)
(* number and zone letter; all points of the model lie in one zone.        *)
(***************************************************************************)
from_latlon(lat, lon) == <<500 + lon, lat, 17, "S">>

convert_to_utm(gps_path) ==
    [i \in 1..Len(gps_path) |-> from_latlon(gps_path[i][2], gps_path[i][1])]

\* lines 262-264: the centerlines of all lanes of the sequence but the last
RECURSIVE CompositeCenterline(_, _, _)
CompositeCenterline(ln, seq, i) ==
    IF i >= Len(seq) THEN <<>>
    ELSE ln[seq[i]].center \o CompositeCenterline(ln, seq, i + 1)

(***************************************************************************)
(* Reference notions for the search claims.                                *)
(***************************************************************************)
Min(S) == CHOOSE x \in S : \A y \in S : x <= y

Successors(ln, gr, u) == {get(gr, u)[i] : i \in 1..Len(get(gr, u))} \cap DOMAIN ln

\* k rounds of relaxation of the costs d towards a fixed lane: d[u] becomes the
\* least sum of the lengths of the lanes entered after u on a lane sequence
\* that follows adjacency edges
RECURSIVE CostsTo(_, _, _, _)
CostsTo(ln, gr, d, k) ==
    IF k = 0 THEN d
    ELSE CostsTo(ln, gr,
                 [u \in DOMAIN ln |->
                     Min({d[u]} \cup {Plus(d[v], lane_length(ln[v])) :
                                        v \in Successors(ln, gr, u)})],
                 k - 1)

RemainingCost(ln, gr, gl) ==
    CostsTo(ln, gr, [u \in DOMAIN ln |-> IF u = gl THEN 0 ELSE Inf],
            Cardinality(DOMAIN ln))

\* the summed lengths of the lanes of a sequence, after its first lane
RECURSIVE SequenceCost(_, _, _)
SequenceCost(ln, seq, i) ==
    IF i > Len(seq) THEN 0 ELSE lane_length(ln[seq[i]]) + SequenceCost(ln, seq, i + 1)

Admissible(ln, gr, gl) ==
    \A u \in DOMAIN ln : heuristic(ln[u], ln[gl]) <= RemainingCost(ln, gr, gl)[u]

Consistent(ln, gr, gl) ==
    /\ heuristic(ln[gl], ln[gl]) = 0
    /\ \A u \in DOMAIN ln : \A v \in Successors(ln, gr, u) :
          heuristic(ln[u], ln[gl]) <= lane_length(ln[v]) + heuristic(ln[v], ln[gl])

Returned(t) == pc[t] = "returned"

\* C1: with an admissible and consistent heuristic, a lane sequence returned by
\* a_star_lane_level has the least summed lane length of all lane sequences
\* that follow adjacency edges from the start lane to the goal lane.
C1_Optimal ==
    (/\ Returned(Caller)
     /\ lane_path[Caller].found
     /\ Admissible(lanes, graph, goal_lane[Caller])
     /\ Consistent(lanes, graph, goal_lane[Caller]))
    => SequenceCost(lanes, lane_path[Caller].lanes, 2)
         = RemainingCost(lanes, graph, goal_lane[Caller])[start_lane[Caller]]

(***************************************************************************)
(* The node.  Thread "gps_fix" runs localization_callback and thread       *)
(* "gps_coordinates" runs hmi_callback, each for one message at a time.    *)
(***************************************************************************)
BothKnown == start_gps # NoFix /\ goal_gps # NoFix

Delivered == received["gps_fix"] + received["gps_coordinates"]

\* lines 229 and 237: the callback stores the position of the message
Callback(t, msg) ==
    /\ pc[t] = "idle"
    /\ Delivered < MaxUpdates
    /\ IF t = "gps_fix"
       THEN start_gps' = <<msg.longitude, msg.latitude>> /\ goal_gps' = goal_gps
       ELSE goal_gps' = <<msg.longitude, msg.latitude>> /\ start_gps' = start_gps
    /\ received' = [received EXCEPT ![t] = received[t] + 1]
    /\ pc' = [pc EXCEPT ![t] = "try"]
    /\ UNCHANGED <<world, fields, locals, fix, computed_path, path_utm, history, call>>

localization_callback(msg) == Callback("gps_fix", msg)
hmi_callback(msg)          == Callback("gps_coordinates", msg)

\* TryComputePath reached from localization_callback only
TryComputePathStartOnly(t) ==
    /\ pc[t] = "try"
    /\ pc' = [pc EXCEPT ![t] = IF BothKnown /\ t = "gps_fix" THEN "reset" ELSE "idle"]
    /\ UNCHANGED <<world, node, fields, locals, outs>>

\* line 249
TryComputePath(t) ==
    /\ pc[t] = "try"
    /\ pc' = [pc EXCEPT ![t] = IF BothKnown THEN "reset" ELSE "idle"]
    /\ UNCHANGED <<world, node, fields, locals, outs>>

\* line 251
reset_lane_states(t) ==
    /\ pc[t] = "reset"
    /\ g' = FreshG(lanes)
    /\ h' = FreshH(lanes)
    /\ f' = FreshF(lanes)
    /\ parent' = FreshParent(lanes)
    /\ pc' = [pc EXCEPT ![t] = "locate"]
    /\ UNCHANGED <<world, node, locals, outs>>

\* lines 252-257
Locate(t) ==
    /\ pc[t] = "locate"
    /\ LET s  == find_closest_lane_node(lanes, lane_order, start_gps)
           gl == find_closest_lane_node(lanes, lane_order, goal_gps)
       IN /\ start_lane' = [start_lane EXCEPT ![t] = s]
          /\ goal_lane' = [goal_lane EXCEPT ![t] = gl]
          /\ fix' = [fix EXCEPT ![t] = <<start_gps, goal_gps>>]
          /\ pc' = [pc EXCEPT ![t] = IF s = None \/ gl = None THEN "idle" ELSE "search"]
    /\ UNCHANGED <<world, node, fields, open_list, closed_set, current, nbr_i, path,
                   lane_path, computed_path, path_utm, received, history, call>>

\* lines 262-269 for a lane sequence, a goal lane and the goal position
FinalCenterline(ln, seq, gl, goal) ==
    remove_cycles_from_path(
        CompositeCenterline(ln, seq, 1)
        \o truncate_goal_lane(ln[gl].center, goal, MinFraction, Threshold))

\* Publish without the test of line 260
PublishUnconditional(t) ==
    /\ pc[t] = "returned"
    /\ LET final_centerline ==
               FinalCenterline(lanes, lane_path[t].lanes, goal_lane[t], goal_gps)
       IN /\ computed_path' = Append(computed_path, final_centerline)
          /\ path_utm' = Append(path_utm, convert_to_utm(final_centerline))
          /\ history' = history \cup
                {[start |-> fix[t][1], goal |-> fix[t][2],
                  lane_path |-> lane_path[t], published |-> <<final_centerline>>]}
    /\ pc' = [pc EXCEPT ![t] = "idle"]
    /\ UNCHANGED <<world, node, fields, locals, fix, received, call>>

\* lines 260-278
Publish(t) ==
    /\ pc[t] = "returned"
    /\ IF lane_path[t].found /\ lane_path[t].lanes # <<>>
       THEN LET final_centerline ==
                    FinalCenterline(lanes, lane_path[t].lanes, goal_lane[t], goal_gps)
            IN /\ computed_path' = Append(computed_path, final_centerline)
               /\ path_utm' = Append(path_utm, convert_to_utm(final_centerline))
               /\ history' = history \cup
                     {[start |-> fix[t][1], goal |-> fix[t][2],
                       lane_path |-> lane_path[t], published |-> <<final_centerline>>]}
               /\ lanes' = [lanes EXCEPT ![goal_lane[t]].center =
                               CenterAfterTruncate(lanes[goal_lane[t]].center, goal_gps,
                                                   MinFraction, Threshold)]
       ELSE /\ UNCHANGED <<computed_path, path_utm, lanes>>
            /\ history' = history \cup
                     {[start |-> fix[t][1], goal |-> fix[t][2],
                       lane_path |-> lane_path[t], published |-> <<>>]}
    /\ pc' = [pc EXCEPT ![t] = "idle"]
    /\ UNCHANGED <<lane_order, graph, node, fields, locals, fix, received, call>>

(***************************************************************************)
(* Lane documents the node is started on.                                  *)
(***************************************************************************)
\* three lanes in a row, west to east, each one segment long
ChainDoc ==
    << LaneRecord(1, <<0, 0>>, <<1, 0>>, <<<<0, 0>>, <<1, 0>>>>, <<2, NoConnection>>),
       LaneRecord(2, <<1, 0>>, <<2, 0>>, <<<<1, 0>>, <<2, 0>>>>, <<3, NoConnection>>),
       LaneRecord(3, <<2, 0>>, <<3, 0>>, <<<<2, 0>>, <<3, 0>>>>, <<NoConnection>>) >>

\* Lane 2 leaves the origin, passes (3,1) and comes back to the origin; lane 3
\* has no centerline and leads on to lane 1, which ends at (3,1) too and comes
\* before lane 2 in the document.  Lane 3 is the first lane of the document.
LoopDoc ==
    << LaneRecord(3, <<0, 0>>, <<3, 0>>, <<>>, <<1, NoConnection>>),
       LaneRecord(1, <<3, 0>>, <<3, 1>>, <<<<3, 0>>, <<3, 1>>>>, <<NoConnection>>),
       LaneRecord(2, <<0, 0>>, <<0, 0>>, <<<<0, 0>>, <<3, 1>>, <<0, 0>>>>, <<3, NoConnection>>) >>

NodeDocs == {ChainDoc, LoopDoc}

\* the west end of the chain, and a position off the lanes near its east end
GpsPoints == {<<0, 0>>, <<3, 1>>}

Messages == {[longitude |-> p[1], latitude |-> p[2]] : p \in GpsPoints}

Init ==
    /\ \E doc \in NodeDocs : LoadedInto(doc)
    /\ start_gps = NoFix
    /\ goal_gps = NoFix
    /\ g = FreshG(lanes)
    /\ h = FreshH(lanes)
    /\ f = FreshF(lanes)
    /\ parent = FreshParent(lanes)
    /\ pc = [t \in Threads |-> "idle"]
    /\ start_lane = [t \in Threads |-> None]
    /\ goal_lane = [t \in Threads |-> None]
    /\ open_list = [t \in Threads |-> <<>>]
    /\ closed_set = [t \in Threads |-> {}]
    /\ current = [t \in Threads |-> None]
    /\ nbr_i = [t \in Threads |-> 1]
    /\ path = [t \in Threads |-> <<>>]
    /\ lane_path = [t \in Threads |-> NoPath]
    /\ fix = [t \in Threads |-> <<NoFix, NoFix>>]
    /\ computed_path = <<>>
    /\ path_utm = <<>>
    /\ received = [t \in Threads |-> 0]
    /\ history = {}
    /\ call = NoCall

Next ==
    \/ \E msg \in Messages : localization_callback(msg)
    \/ \E msg \in Messages : hmi_callback(msg)
    \/ \E t \in Threads : TryComputePath(t)
    \/ \E t \in Threads : reset_lane_states(t)
    \/ \E t \in Threads : Locate(t)
    \/ \E t \in Threads : AStarBegin(t)
    \/ \E t \in Threads : AStarPop(t)
    \/ \E t \in Threads : AStarNeighbor(t)
    \/ \E t \in Threads : AStarBuild(t)
    \/ \E t \in Threads : AStarFail(t)
    \/ \E t \in Threads : Publish(t)

Spec == Init /\ [][Next]_vars

\* The node as section 5 of the specification assumes it is run: a callback is
\* entered only while no other callback is running.
Serialized == \A t \in Threads : (pc[t] = "idle" /\ pc'[t] # "idle") => \A u \in Threads : pc[u] = "idle"

SpecSerial == Init /\ [][Next /\ Serialized]_vars

(***************************************************************************)
(* Calls of the pure functions on their own.  The node is not running:     *)
(* nothing but call changes.                                               *)
(***************************************************************************)
SeqsUpTo(S, n) == UNION {[1..k -> S] : k \in 0..n}

NodeNotRunning ==
    /\ start_gps = NoFix
    /\ goal_gps = NoFix
    /\ g = FreshG(lanes)
    /\ h = FreshH(lanes)
    /\ f = FreshF(lanes)
    /\ parent = FreshParent(lanes)
    /\ pc = [t \in Threads |-> "idle"]
    /\ start_lane = [t \in Threads |-> None]
    /\ goal_lane = [t \in Threads |-> None]
    /\ open_list = [t \in Threads |-> <<>>]
    /\ closed_set = [t \in Threads |-> {}]
    /\ current = [t \in Threads |-> None]
    /\ nbr_i = [t \in Threads |-> 1]
    /\ path = [t \in Threads |-> <<>>]
    /\ lane_path = [t \in Threads |-> NoPath]
    /\ fix = [t \in Threads |-> <<NoFix, NoFix>>]
    /\ computed_path = <<>>
    /\ path_utm = <<>>
    /\ received = [t \in Threads |-> 0]
    /\ history = {}

NoLanes ==
    /\ lanes = <<>>
    /\ lane_order = <<>>
    /\ graph = <<>>

OnlyCall == UNCHANGED <<world, node, fields, pc, locals, fix, computed_path, path_utm,
                        received, history>>

(***************************************************************************)
(* SpecCycles: remove_cycles_from_path, one point of the walk per step.    *)
(***************************************************************************)
PathPoints == {<<0, 0>>, <<1, 0>>, <<0, 1>>}

InitCycles ==
    /\ NoLanes
    /\ NodeNotRunning
    /\ \E pts \in SeqsUpTo(PathPoints, MaxPath) :
          call = [fn |-> "remove_cycles_from_path", path |-> pts, i |-> 1,
                  seen |-> CycleStart.seen, new_path |-> CycleStart.new_path]

\* one turn of the for loop of lines 172-179
RemoveCyclesStep ==
    /\ call.fn = "remove_cycles_from_path"
    /\ call.i <= Len(call.path)
    /\ LET st == CycleStep([seen |-> call.seen, new_path |-> call.new_path],
                           call.path[call.i])
       IN call' = [call EXCEPT !.i = call.i + 1, !.seen = st.seen,
                               !.new_path = st.new_path]
    /\ OnlyCall

NextCycles == RemoveCyclesStep

SpecCycles == InitCycles /\ [][NextCycles]_vars

(***************************************************************************)
(* SpecTrunc: truncate_goal_lane, and truncate_goal_lane on its own result *)
(***************************************************************************)
TruncPoints == {<<x, 0>> : x \in 0..MaxCoord} \cup {<<0, 1>>}
Fractions   == {<<0, 10>>, MinFraction, <<5, 10>>, <<10, 10>>}
Thresholds  == {0, 2, Threshold}

InitTrunc ==
    /\ NoLanes
    /\ NodeNotRunning
    /\ \E c \in SeqsUpTo(TruncPoints, MaxCenter), gp \in TruncPoints,
          m \in Fractions, th \in Thresholds :
          call = [fn |-> "truncate_goal_lane", center |-> c, goal |-> gp,
                  min_fraction |-> m, threshold |-> th, calls |-> 0,
                  result |-> <<>>, previous |-> <<>>]

Truncate ==
    /\ call.fn = "truncate_goal_lane"
    /\ call.calls = 0
    /\ call' = [call EXCEPT
                  !.calls = 1,
                  !.result = truncate_goal_lane(call.center, call.goal,
                                                call.min_fraction, call.threshold)]
    /\ OnlyCall

TruncateAgain ==
    /\ call.fn = "truncate_goal_lane"
    /\ call.calls = 1
    /\ call' = [call EXCEPT
                  !.calls = 2,
                  !.previous = call.result,
                  !.result = truncate_goal_lane(call.result, call.goal,
                                                call.min_fraction, call.threshold)]
    /\ OnlyCall

NextTrunc == Truncate \/ TruncateAgain

SpecTrunc == InitTrunc /\ [][NextTrunc]_vars

(***************************************************************************)
(* SpecNearest: find_closest_lane_node on documents of up to MaxLanes      *)
(* lanes, listed with descending path ids: the iteration order of the      *)
(* lanes is the order of the document, not the order of the ids.           *)
(***************************************************************************)
NearPoints == {<<0, 0>>, <<1, 0>>, <<0, 1>>}

\* centerlines of up to MaxNear points, no point twice
NearCenters ==
    {c \in SeqsUpTo(NearPoints, MaxNear) : \A i, j \in 1..Len(c) : c[i] = c[j] => i = j}

\* each at three different distances from the three points
NearQueries == {<<0, 0>>, <<1, 1>>}

NearDoc(n, ctr) ==
    [i \in 1..n |-> LaneRecord(n + 1 - i, Origin, Origin, ctr[i], <<NoConnection>>)]

InitNearest ==
    /\ \E n \in 0..MaxLanes :
          \E ctr \in [1..n -> NearCenters] : LoadedInto(NearDoc(n, ctr))
    /\ NodeNotRunning
    /\ \E q \in NearQueries :
          call = [fn |-> "find_closest_lane_node", gps_point |-> q, done |-> FALSE,
                  result |-> None]

FindClosest ==
    /\ call.fn = "find_closest_lane_node"
    /\ ~call.done
    /\ call' = [call EXCEPT
                  !.done = TRUE,
                  !.result = find_closest_lane_node(lanes, lane_order, call.gps_point)]
    /\ OnlyCall

NextNearest == FindClosest

SpecNearest == InitNearest /\ [][NextNearest]_vars

(***************************************************************************)
(* The claims.                                                             *)
(***************************************************************************)
NoRepeat(seq) == \A i, j \in 1..Len(seq) : seq[i] = seq[j] => i = j

CyclesDone == call.fn = "remove_cycles_from_path" /\ call.i > Len(call.path)

\* C2: the output of remove_cycles_from_path holds no coordinate twice and is
\* never longer than the input; an input that holds no coordinate twice comes
\* back unchanged.
C2_CycleFree ==
    CyclesDone =>
        /\ NoRepeat(call.new_path)
        /\ Len(call.new_path) <= Len(call.path)
        /\ (NoRepeat(call.path) => call.new_path = call.path)

\* a walk that met a coordinate again and kept at least two points
C2_Witness ==
    /\ CyclesDone
    /\ ~NoRepeat(call.path)
    /\ Len(call.new_path) >= 2
    /\ Len(call.new_path) < Len(call.path)

\* C3 as stated: truncate_goal_lane applied to its own result, with the same
\* goal, min_fraction and threshold, returns that result again.
C3_Idempotent ==
    (call.fn = "truncate_goal_lane" /\ call.calls = 2) => call.result = call.previous

\* the position the first call selected is the length of its result; the
\* centerline points before it are the points of the result before its last
FarBeforeSelected ==
    \A i \in 1..(Len(call.previous) - 1) :
        geodesic(<<call.goal[2], call.goal[1]>>,
                 <<call.previous[i][2], call.previous[i][1]>>) >= call.threshold

\* C3 amended: with a positive threshold, truncate_goal_lane applied to its own
\* result returns that result again whenever no centerline point before the
\* selected index is nearer to the goal than the threshold.
C3_IdempotentFar ==
    (/\ call.fn = "truncate_goal_lane"
     /\ call.calls = 2
     /\ call.threshold > 0
     /\ FarBeforeSelected)
    => call.result = call.previous

\* a second call on a result of three points, the goal point its last
C3_Witness ==
    /\ call.fn = "truncate_goal_lane"
    /\ call.calls = 2
    /\ call.threshold > 0
    /\ FarBeforeSelected
    /\ Len(call.previous) = 3
    /\ call.result = call.previous

\* C5: on a centerline of non-zero length, with k the first position whose arc
\* length fraction is at least min_fraction and whose distance to the goal is
\* below the threshold, or the last position if there is none, the result has
\* the points of the centerline before k followed by the goal point.
MeetsBoth(i) ==
    /\ Cumulative(call.center, i) * call.min_fraction[2]
         >= call.min_fraction[1] * Cumulative(call.center, Len(call.center))
    /\ geodesic(<<call.goal[2], call.goal[1]>>,
                <<call.center[i][2], call.center[i][1]>>) < call.threshold

Selected ==
    IF \E i \in 1..Len(call.center) : MeetsBoth(i)
    THEN CHOOSE i \in 1..Len(call.center) : MeetsBoth(i) /\ \A j \in 1..(i - 1) : ~MeetsBoth(j)
    ELSE Len(call.center)

C5_TruncateResult ==
    (/\ call.fn = "truncate_goal_lane"
     /\ call.calls = 1
     /\ Cumulative(call.center, Len(call.center)) # 0)
    => /\ Len(call.result) = Selected
       /\ \A i \in 1..(Selected - 1) : call.result[i] = call.center[i]
       /\ call.result[Selected] = call.goal

\* a centerline cut in its middle, at a point whose fraction is exactly min_fraction
C5_Witness ==
    /\ call.fn = "truncate_goal_lane"
    /\ call.calls = 1
    /\ Len(call.center) = 3
    /\ Len(call.result) = 2
    /\ call.min_fraction[1] > 0
    /\ Cumulative(call.center, 2) * call.min_fraction[2]
         = call.min_fraction[1] * Cumulative(call.center, 3)
    /\ call.result[2] # call.center[2]

\* C10: find_closest_lane_node returns a lane that owns a centerline point at
\* the least distance from the query point over all points of all lanes, the
\* first such lane in the iteration order of the lanes; it returns None exactly
\* when no lane has a centerline point.
PositionIn(ord, id) == CHOOSE i \in 1..Len(ord) : ord[i] = id

QueryDistance(id, j) ==
    geodesic(<<call.gps_point[2], call.gps_point[1]>>,
             <<lanes[id].center[j][2], lanes[id].center[j][1]>>)

NoCenterPoint == \A id \in DOMAIN lanes : lanes[id].center = <<>>

\* no centerline point of any lane is nearer to the query point than d
Least(d) ==
    \A id \in DOMAIN lanes :
        \A j \in 1..Len(lanes[id].center) : d <= QueryDistance(id, j)

\* lane id owns a centerline point at the least distance
OwnsNearest(id) ==
    \E j \in 1..Len(lanes[id].center) : Least(QueryDistance(id, j))

C10_NearestLane ==
    (call.fn = "find_closest_lane_node" /\ call.done) =>
        /\ (call.result = None) <=> NoCenterPoint
        /\ call.result # None =>
              /\ OwnsNearest(call.result)
              /\ \A id \in DOMAIN lanes :
                    OwnsNearest(id)
                    => PositionIn(lane_order, call.result) <= PositionIn(lane_order, id)

\* two lanes tie at the least distance and the one returned has the larger id
C10_Witness ==
    /\ call.fn = "find_closest_lane_node"
    /\ call.done
    /\ call.result # None
    /\ \E id \in DOMAIN lanes : id < call.result /\ OwnsNearest(id)

\* C4: two computations that looked up the same start point and the same goal
\* point found the same lane sequence and published the same paths.
C4_Deterministic ==
    \A a \in history, b \in history :
        (a.start = b.start /\ a.goal = b.goal)
        => (a.lane_path = b.lane_path /\ a.published = b.published)

\* the lanes that adjacency edges lead to from lane s
RECURSIVE ReachableSet(_, _, _, _)
ReachableSet(ln, gr, S, k) ==
    IF k = 0 THEN S
    ELSE ReachableSet(ln, gr, S \cup UNION {Successors(ln, gr, u) : u \in S}, k - 1)

Reachable(ln, gr, s, gl) == gl \in ReachableSet(ln, gr, {s}, Cardinality(DOMAIN ln))

Unreachable(t) ==
    /\ start_lane[t] # None
    /\ goal_lane[t] # None
    /\ ~Reachable(lanes, graph, start_lane[t], goal_lane[t])

\* C6: when the goal lane cannot be reached from the start lane, the search
\* returns None, the computation ends without a message on either stream, and
\* its thread is back at the point where it takes the next update.
C6_SearchFailure ==
    [][\A t \in Threads :
          Unreachable(t) =>
              /\ (pc'[t] = "returned" => ~lane_path'[t].found)
              /\ (pc[t] = "returned" /\ pc'[t] # "returned")
                 => /\ pc'[t] = "idle"
                    /\ computed_path' = computed_path
                    /\ path_utm' = path_utm]_vars

\* a computation whose goal lane was out of reach has ended, a later one published
C6_Witness ==
    /\ \E r \in history : ~r.lane_path.found /\ r.published = <<>>
    /\ \E t \in Threads : pc[t] = "idle" /\ Unreachable(t)
    /\ computed_path # <<>>

\* the adjacency lists without the ids that no lane has
RECURSIVE SelectLanes(_, _)
SelectLanes(ln, ids) ==
    IF ids = <<>> THEN <<>>
    ELSE IF Head(ids) \in DOMAIN ln
         THEN <<Head(ids)>> \o SelectLanes(ln, Tail(ids))
         ELSE SelectLanes(ln, Tail(ids))

WithoutDangling(ln, gr) == [u \in DOMAIN gr |-> SelectLanes(ln, gr[u])]

HasDangling(ln, gr, u) == \E i \in 1..Len(get(gr, u)) : get(gr, u)[i] \notin DOMAIN ln

\* C7: a_star_lane_level returns what it returns on the graph whose adjacency
\* lists have lost the ids that no lane has.
C7_DanglingSkipped ==
    Returned(Caller) =>
        lane_path[Caller] =
            a_star_lane_level(WithoutDangling(lanes, graph), lanes, FreshState(lanes),
                              start_lane[Caller], goal_lane[Caller])

\* a search that expanded a lane with a dangling successor and went on to the goal
C7_Witness ==
    /\ Returned(Caller)
    /\ lane_path[Caller].found
    /\ Len(lane_path[Caller].lanes) >= 2
    /\ \E u \in closed_set[Caller] :
          /\ u # goal_lane[Caller]
          /\ HasDangling(lanes, graph, u)
          /\ get(graph, u)[1] \notin DOMAIN lanes

\* C8: a thread that has stored an update starts a computation exactly when
\* both positions are known; the computation looks the lanes up for the
\* positions stored at that moment; nothing is published before an update of
\* each kind has been received.
C8_Trigger ==
    [][/\ \A t \in Threads :
            /\ (pc[t] = "idle" /\ pc'[t] # "idle") => pc'[t] = "try"
            /\ (pc[t] = "try" /\ pc'[t] # "try")
               => (pc'[t] = "reset" <=> BothKnown) /\ (pc'[t] = "idle" <=> ~BothKnown)
            /\ (pc[t] = "locate" /\ pc'[t] # "locate") => fix'[t] = <<start_gps, goal_gps>>
       /\ (computed_path' # <<>> \/ path_utm' # <<>>)
          => (received["gps_fix"] >= 1 /\ received["gps_coordinates"] >= 1)]_vars

\* three updates were taken, the first one started nothing, the later two
\* each ran a computation to its end
C8_Witness ==
    /\ Delivered = 3
    /\ \A t \in Threads : pc[t] = "idle"
    /\ Cardinality(history) = 2
    /\ Len(computed_path) >= 1

Running(t) == pc[t] # "idle"

\* C9 as stated: at most one thread is inside a callback at a time.
C9_OneAtATime == \A t1 \in Threads, t2 \in Threads : (Running(t1) /\ Running(t2)) => t1 = t2

\* C11: no step of the node changes a lane's path_id, start, end or center,
\* the set of lanes, their order or an adjacency list.
C11_GraphReadOnly == [][lanes' = lanes /\ lane_order' = lane_order /\ graph' = graph]_vars

\* a path was published whose last point is the goal position, which is not
\* a centerline point of any lane
C11_Witness ==
    /\ computed_path # <<>>
    /\ \E r \in history :
          /\ r.published # <<>>
          /\ r.published[1] # <<>>
          /\ r.published[1][Len(r.published[1])] = r.goal
          /\ \A id \in DOMAIN lanes : \A j \in 1..Len(lanes[id].center) :
                lanes[id].center[j] # r.goal
    /\ \E id \in DOMAIN lanes : g[id] # Inf /\ f[id] # 0

\* C12: the lane a pop removes from the open list has an f that is not above
\* the f of any lane that still has an entry in the open list.
C12_MinimumPop ==
    [][(pc[Caller] = "loop" /\ open_list[Caller] # <<>>)
       => \A i \in 1..Len(open_list'[Caller]) :
             f[current'[Caller]] <= f[open_list'[Caller][i]]]_vars

\* C13: when the walk of remove_cycles_from_path meets a coordinate it has
\* seen before, new_path ends with that coordinate right after the step.
C13_LoopCollapse ==
    [][(/\ call.fn = "remove_cycles_from_path"
        /\ call.i <= Len(call.path)
        /\ call.path[call.i] \in DOMAIN call.seen)
       => /\ call'.new_path # <<>>
          /\ call'.new_path[Len(call'.new_path)] = call.path[call.i]]_vars

\* the entries lane id has in a heap list
Entries(heap, id) == Cardinality({i \in 1..Len(heap) : heap[i] = id})

\* C14: in one search, no step changes the g, h, f or parent of a lane that is
\* in the closed set or adds an open-list entry for it; and when the pop
\* returns a lane that was in the closed set already, the expansion that
\* follows leaves every lane's g and parent as they are.
C14_NeverReopened ==
    [][/\ \A id \in closed_set[Caller] :
             /\ g'[id] = g[id]
             /\ h'[id] = h[id]
             /\ f'[id] = f[id]
             /\ parent'[id] = parent[id]
             /\ Entries(open_list'[Caller], id) <= Entries(open_list[Caller], id)
       /\ (/\ pc[Caller] = "loop"
           /\ open_list[Caller] # <<>>
           /\ current'[Caller] \in closed_set[Caller]
           /\ current'[Caller] # goal_lane[Caller])
          => LET st == SearchExpand(lanes, graph,
                                    SearchState(g', h', f', parent', open_list'[Caller],
                                                closed_set'[Caller]),
                                    current'[Caller], goal_lane[Caller], 1)
             IN st.g = g' /\ st.parent = parent']_vars

\* a lane that was closed before is at the root of the heap list, the next pop
\* returns it; it has a successor that exists and is not closed yet
C14_Witness ==
    /\ pc[Caller] = "loop"
    /\ open_list[Caller] # <<>>
    /\ open_list[Caller][1] \in closed_set[Caller]
    /\ open_list[Caller][1] # goal_lane[Caller]
    /\ \E v \in Successors(lanes, graph, open_list[Caller][1]) : v \notin closed_set[Caller]

\* C15: a lane sequence that a_star_lane_level returns is not empty, begins
\* with the start lane, ends with the goal lane, goes from each lane to one of
\* its successors and holds no lane twice; for a start lane that is the goal
\* lane it is that lane alone.
C15_ResultShape ==
    (Returned(Caller) /\ lane_path[Caller].found) =>
        LET seq == lane_path[Caller].lanes
        IN /\ seq # <<>>
           /\ seq[1] = start_lane[Caller]
           /\ seq[Len(seq)] = goal_lane[Caller]
           /\ \A i \in 1..(Len(seq) - 1) :
                 \E k \in 1..Len(get(graph, seq[i])) : get(graph, seq[i])[k] = seq[i + 1]
           /\ \A i, j \in 1..Len(seq) : seq[i] = seq[j] => i = j
           /\ (start_lane[Caller] = goal_lane[Caller] => seq = <<start_lane[Caller]>>)

\* a sequence of two lanes or more was returned, in a graph where its second
\* lane leads back to the start lane
C15_Witness ==
    /\ Returned(Caller)
    /\ lane_path[Caller].found
    /\ Len(lane_path[Caller].lanes) >= 2
    /\ start_lane[Caller] \in Successors(lanes, graph, lane_path[Caller].lanes[2])

\* C15, its last part: the search from a lane to itself in a graph where the
\* lane is its own successor
C15_WitnessSelf ==
    /\ Returned(Caller)
    /\ start_lane[Caller] = goal_lane[Caller]
    /\ start_lane[Caller] \in Successors(lanes, graph, start_lane[Caller])
    /\ lane_path[Caller] = Found(<<start_lane[Caller]>>)

\* C16: when a thread of the node begins a_star_lane_level, every lane has
\* g = inf, h = 0, f = 0 and parent = None.
C16_FreshAtSearch ==
    [][\A t \in Threads :
          (pc[t] = "search" /\ pc'[t] = "loop")
          => /\ g = FreshG(lanes)
             /\ h = FreshH(lanes)
             /\ f = FreshF(lanes)
             /\ parent = FreshParent(lanes)]_vars

\* C17: a_star_lane_level comes to its end, by a goal lane popped and a parent
\* chain followed to a lane without parent, or by an empty open list.
C17_Terminates == <>(pc[Caller] = "returned")

\* a search has ended in a graph where a lane of length 0 that it expanded is
\* its own successor
C17_Witness ==
    /\ Returned(Caller)
    /\ \E u \in closed_set[Caller] :
          /\ u \in Successors(lanes, graph, u)
          /\ lane_length(lanes[u]) = 0
          /\ u # goal_lane[Caller]

\* C18: a path published on /computed_path ends with the goal position of its
\* computation.
C18_EndsAtGoal ==
    \A r \in history :
        r.published # <<>>
        => /\ r.published[1] # <<>>
           /\ r.published[1][Len(r.published[1])] = r.goal

InSearch(t) == pc[t] \in {"search", "loop", "neighbors", "build", "diverged", "returned"}

\* C19: from the call of a_star_lane_level to the end of the computation, the
\* start lane and the goal lane of the computation have a centerline with at
\* least one point; a lane without one is, in a lane sequence found, neither
\* of the two.
C19_EndLanesHavePoints ==
    \A t \in Threads :
        InSearch(t) =>
            /\ lanes[start_lane[t]].center # <<>>
            /\ lanes[goal_lane[t]].center # <<>>
            /\ \A i \in 1..Len(lane_path[t].lanes) :
                  lanes[lane_path[t].lanes[i]].center = <<>>
                  => lane_path[t].lanes[i] \notin {start_lane[t], goal_lane[t]}

\* a lane sequence was found that goes through a lane without centerline
C19_Witness ==
    \E t \in Threads :
        /\ pc[t] = "returned"
        /\ lane_path[t].found
        /\ Len(lane_path[t].lanes) = 3
        /\ lanes[lane_path[t].lanes[2]].center = <<>>

\* the centerline of the call has no two different points
Degenerate == \A i, j \in 1..Len(call.center) : call.center[i] = call.center[j]

\* C20: on a centerline that is empty, has one point or has all its points
\* at one place, truncate_goal_lane returns the goal point alone; on any other
\* centerline the result begins with the first point of the centerline unless
\* the first position is the one selected.
C20_DegenerateGoalLane ==
    (call.fn = "truncate_goal_lane" /\ call.calls = 1) =>
        IF Degenerate
        THEN call.result = <<call.goal>>
        ELSE Selected # 1 => call.result[1] = call.center[1]

\* three points at one place, away from the goal point by the threshold or more
C20_Witness ==
    /\ call.fn = "truncate_goal_lane"
    /\ call.calls = 1
    /\ Len(call.center) = 3
    /\ Degenerate
    /\ geodesic(<<call.goal[2], call.goal[1]>>,
                <<call.center[1][2], call.center[1][1]>>) >= call.threshold
    /\ call.threshold > 0
    /\ call.result = <<call.goal>>

====
